---- MODULE Spec2Model ----
(***************************************************************************)
(* Model of ProjectArbeit/EinschulungsProject.py: the four diagrams        *)
(* (BarDiagram, ScatterPlot, PieDiagram, PlotterDiagram), their combobox   *)
(* filters and the application's load_csv_file.                            *)
(*                                                                         *)
(* Numbers: a rate is held in tenths of a percent (62.5 % is 625), so that *)
(* the one-decimal rates of the data and the ".0f" rounding of the bucket  *)
(* labels are both represented.  A DataFrame is the sequence of its rows;  *)
(* what a diagram has drawn on its axes is the "out" field of its record.  *)
(***************************************************************************)
EXTENDS Integers, Sequences, FiniteSets, TLC

VARIABLES app, bar, scatter, pie, plotter

vars == <<app, bar, scatter, pie, plotter>>

-----------------------------------------------------------------------------
(* Bounds of the model *)

\* longest DataFrame loaded in the application specification
MaxRows == 2

\* longest DataFrame given to the engines in the pure-function specifications
MaxEngineRows == 3

-----------------------------------------------------------------------------
(* Strings and values of the program *)

Alle == "Alle"

AlleLaender == "Alle Länder"

\* Python's None, for highlight_country
None == "<None>"

EntityCol == "Entity"

ContinentCol == "Continent"

YearCol == "Year"

RateCol == "Combined total net enrolment rate, primary, both sexes"

required_columns == <<EntityCol, ContinentCol, YearCol, RateCol>>

\* self.df = None, and a DataFrame with the given rows
NoDf == [isNone |-> TRUE, rows |-> <<>>]

DataFrame(rows) == [isNone |-> FALSE, rows |-> rows]

Row(e, c, y, r) == [Entity |-> e, Continent |-> c, Year |-> y, Rate |-> r]

\* The names the model's data uses, in the order of Python's str comparison,
\* which sorted() applies.
NameOrder ==
    <<"Africa", "Algeria", "Angola", "Asia", "Benin", "Botswana", "Burundi", "Cameroon",
      "Chad", "Congo", "Egypt", "Eritrea", "Ethiopia", "Europe", "France", "Gabon",
      "Gambia", "Ghana", "Guinea", "Kenya", "Lesotho", "Liberia", "Libya", "Mali">>

Rank(s) == CHOOSE i \in DOMAIN NameOrder : NameOrder[i] = s

SeqToSet(s) == {s[i] : i \in DOMAIN s}

\* Series.unique(): the distinct values in order of first appearance
RECURSIVE Unique(_)
Unique(s) ==
    IF s = <<>> THEN <<>>
    ELSE LET u == Unique(SubSeq(s, 1, Len(s) - 1))
             x == s[Len(s)]
         IN  IF x \in SeqToSet(u) THEN u ELSE Append(u, x)

\* a sequence without its m-th element
Without(s, m) == SubSeq(s, 1, m - 1) \o SubSeq(s, m + 1, Len(s))

\* sorted() of a list of distinct names
RECURSIVE SortedNames(_)
NamesFrom(s, m) == <<s[m]>> \o SortedNames(Without(s, m))

SortedNames(s) ==
    IF s = <<>> THEN <<>>
    ELSE NamesFrom(s, CHOOSE i \in DOMAIN s : \A j \in DOMAIN s : Rank(s[i]) <= Rank(s[j]))

\* df[col].values
Column(rows, col) == [i \in DOMAIN rows |-> rows[i][col]]

\* df[df[col] == v]: the rows whose column equals v, in their order
RECURSIVE SelectEq(_, _, _)
SelectEq(rows, col, v) ==
    IF rows = <<>> THEN <<>>
    ELSE LET rest == SelectEq(Tail(rows), col, v)
         IN  IF Head(rows)[col] = v THEN <<Head(rows)>> \o rest ELSE rest

-----------------------------------------------------------------------------
(* BarDiagram *)

\* the state of a BarDiagram or ScatterPlot after __init__
InitFiltered ==
    [df |-> NoDf,
     continent_var |-> "", country_var |-> "",
     continent_values |-> <<>>, country_values |-> <<>>,
     combo_state |-> "disabled",
     highlight_country |-> None,
     countries_by_continent |-> [k \in {} |-> <<>>],
     out |-> [kind |-> "hint"]]

\* the dict built by set_data: "Alle" and every continent to its sorted entities
CountriesByContinent(rows) ==
    LET continents == SortedNames(Unique(Column(rows, "Continent")))
    IN  [k \in {Alle} \cup SeqToSet(continents) |->
            IF k = Alle /\ k \notin SeqToSet(continents)
            THEN SortedNames(Unique(Column(rows, "Entity")))
            ELSE SortedNames(Unique(Column(SelectEq(rows, "Continent", k), "Entity")))]

\* DataFrame.sort_values(by=rate, ascending=False): descending by rate, rows of
\* equal rate keeping their order
RECURSIVE SortByRateDesc(_)
RowsFrom(rows, m) == <<rows[m]>> \o SortByRateDesc(Without(rows, m))

SortByRateDesc(rows) ==
    IF rows = <<>> THEN <<>>
    ELSE RowsFrom(rows, CHOOSE i \in DOMAIN rows :
                            /\ \A j \in DOMAIN rows : rows[i].Rate >= rows[j].Rate
                            /\ \A j \in 1..(i - 1) : rows[j].Rate # rows[i].Rate)

\* the continent filter of BarDiagram.update and ScatterPlot.update
FilterContinent(rows, selected_continent) ==
    IF selected_continent = Alle THEN rows
    ELSE SelectEq(rows, "Continent", selected_continent)

BarTitle(selected_continent) ==
    IF selected_continent = Alle THEN "Einschulungsrate auf allen Kontinenten"
    ELSE "Einschulungsrate - " \o selected_continent

\* the colour of one bar
BarColor(highlight_country, country) ==
    IF highlight_country = country THEN "orange" ELSE "skyblue"

\* faulty variant: no test of filtered_df.empty
BarAxesDrawsEmpty(filtered_df, selected_continent, highlight_country) ==
    [kind |-> "chart",
     title |-> BarTitle(selected_continent),
     bars |-> [i \in DOMAIN filtered_df |->
                 [entity |-> filtered_df[i].Entity,
                  value |-> filtered_df[i].Rate,
                  year |-> filtered_df[i].Year,
                  color |-> BarColor(highlight_country, filtered_df[i].Entity)]]]

\* the axes of BarDiagram.update, given the filtered and sorted rows
BarAxes(filtered_df, selected_continent, highlight_country) ==
    IF filtered_df = <<>>
    THEN [kind |-> "nodata",
          message |-> "Keine Daten für " \o selected_continent \o " vorhanden"]
    ELSE [kind |-> "chart",
          title |-> BarTitle(selected_continent),
          bars |-> [i \in DOMAIN filtered_df |->
                      [entity |-> filtered_df[i].Entity,
                       value |-> filtered_df[i].Rate,
                       year |-> filtered_df[i].Year,
                       color |-> BarColor(highlight_country, filtered_df[i].Entity)]]]

\* faulty variant: the rows are not sorted
BarFilterUnsorted(rows, selected_continent) == FilterContinent(rows, selected_continent)

\* the rows BarDiagram.update draws, in the order it draws them
BarFilter(rows, selected_continent) ==
    SortByRateDesc(FilterContinent(rows, selected_continent))

\* what BarDiagram.update leaves on the axes
BarCompute(df, selected_continent, highlight_country) ==
    BarAxes(BarFilter(df.rows, selected_continent), selected_continent, highlight_country)

\* faulty variant: the DataFrame of the diagram is sorted in place
BarUpdateSortsInPlace(b) ==
    IF b.df.isNone THEN b
    ELSE [b EXCEPT !.out = BarCompute(b.df, b.continent_var, b.highlight_country),
                   !.df = DataFrame(SortByRateDesc(b.df.rows))]

\* BarDiagram.update
BarUpdate(b) ==
    IF b.df.isNone THEN b
    ELSE [b EXCEPT !.out = BarCompute(b.df, b.continent_var, b.highlight_country)]

\* faulty variant: country_combo.current(0) is left out
WithCombosKeepsCountry(b, continents, cbc) ==
    [b EXCEPT !.continent_values = <<Alle>> \o continents,
              !.combo_state = "readonly",
              !.continent_var = Alle,
              !.countries_by_continent = cbc,
              !.country_values = <<AlleLaender>> \o cbc[Alle]]

\* the comboboxes and the dict as set_data initialises them
WithCombos(b, continents, cbc) ==
    [b EXCEPT !.continent_values = <<Alle>> \o continents,
              !.combo_state = "readonly",
              !.continent_var = Alle,
              !.countries_by_continent = cbc,
              !.country_values = <<AlleLaender>> \o cbc[Alle],
              !.country_var = AlleLaender]

\* BarDiagram.set_data
BarSetData(b, df) ==
    IF df.isNone THEN BarUpdate([b EXCEPT !.df = df])
    ELSE BarUpdate(WithCombos([b EXCEPT !.df = df],
                              SortedNames(Unique(Column(df.rows, "Continent"))),
                              CountriesByContinent(df.rows)))

\* BarDiagram.on_country_selected, the combobox having set country_var
BarOnCountrySelectedOp(b) ==
    BarUpdate([b EXCEPT !.highlight_country =
                  IF b.country_var = AlleLaender THEN None ELSE b.country_var])

\* BarDiagram.on_continent_selected, the combobox having set continent_var
BarOnContinentSelectedOp(b) ==
    LET selected_continent == b.continent_var
        b1 == IF selected_continent \in DOMAIN b.countries_by_continent
              THEN [b EXCEPT !.country_values =
                                <<AlleLaender>> \o b.countries_by_continent[selected_continent],
                             !.country_var = AlleLaender]
              ELSE b
    IN  BarUpdate([b1 EXCEPT !.highlight_country = None])

-----------------------------------------------------------------------------
(* ScatterPlot *)

\* the digits of a natural number
RECURSIVE NatToString(_)
NatToString(n) ==
    LET d == <<"0", "1", "2", "3", "4", "5", "6", "7", "8", "9">>[(n % 10) + 1]
    IN  IF n < 10 THEN d ELSE NatToString(n \div 10) \o d

\* f"{y:.1f}%" of a rate held in tenths
Format1f(y) ==
    LET a == IF y < 0 THEN -y ELSE y
    IN  (IF y < 0 THEN "-" ELSE "") \o NatToString(a \div 10) \o "." \o NatToString(a % 10) \o "%"

\* the legend of the multi-country scatter is drawn for 2..15 countries
LegendMax == 15

ScatterLegend(n) == n > 1 /\ n <= LegendMax

\* years and values of the rows of one country, as plotted: in row order
PointsOf(rows) == [i \in DOMAIN rows |-> <<rows[i].Year, rows[i].Rate>>]

ScatterTitle(selected_continent, selected_country) ==
    IF selected_country # AlleLaender
    THEN "Einschulungsrate im Zeitverlauf - " \o selected_country
    ELSE IF selected_continent = Alle
         THEN "Einschulungsrate im Zeitverlauf - Alle Kontinente"
         ELSE "Einschulungsrate im Zeitverlauf - " \o selected_continent

\* the rows ScatterPlot.update plots
ScatterFilter(rows, selected_continent, selected_country) ==
    LET byContinent == FilterContinent(rows, selected_continent)
    IN  IF selected_country # AlleLaender
        THEN SelectEq(byContinent, "Entity", selected_country)
        ELSE byContinent

\* the axes of ScatterPlot.update, given the filtered rows and their countries
ScatterAxes(filtered_df, countries, selected_continent, selected_country) ==
    IF filtered_df = <<>>
    THEN [kind |-> "nodata",
          message |-> "Keine Daten für die ausgewählten Filter vorhanden"]
    ELSE IF selected_country # AlleLaender
    THEN [kind |-> "chart", mode |-> "single",
          title |-> ScatterTitle(selected_continent, selected_country),
          series |-> << [label |-> None, style |-> "o-",
                         points |-> PointsOf(filtered_df)] >>,
          texts |-> [i \in DOMAIN filtered_df |-> Format1f(filtered_df[i].Rate)],
          legend |-> FALSE]
    ELSE [kind |-> "chart", mode |-> "multi",
          title |-> ScatterTitle(selected_continent, selected_country),
          series |-> [i \in DOMAIN countries |->
                        [label |-> countries[i], style |-> "scatter",
                         points |-> PointsOf(SelectEq(filtered_df, "Entity", countries[i]))]],
          texts |-> <<>>,
          legend |-> ScatterLegend(Len(countries))]

\* what ScatterPlot.update leaves on the axes
ScatterCompute(df, selected_continent, selected_country) ==
    ScatterAxes(ScatterFilter(df.rows, selected_continent, selected_country),
                Unique(Column(ScatterFilter(df.rows, selected_continent, selected_country), "Entity")),
                selected_continent, selected_country)

\* ScatterPlot.update
ScatterUpdate(s) ==
    IF s.df.isNone THEN s
    ELSE [s EXCEPT !.out = ScatterCompute(s.df, s.continent_var, s.country_var)]

\* ScatterPlot.set_data
ScatterSetData(s, df) ==
    IF df.isNone THEN [s EXCEPT !.df = df]
    ELSE ScatterUpdate(WithCombos([s EXCEPT !.df = df],
                                  SortedNames(Unique(Column(df.rows, "Continent"))),
                                  CountriesByContinent(df.rows)))

\* faulty variant: the country combobox is not reset
ScatterOnContinentKeepsCountry(s) == ScatterUpdate([s EXCEPT !.highlight_country = None])

\* ScatterPlot.on_continent_selected, the combobox having set continent_var
ScatterOnContinentSelectedOp(s) ==
    LET selected_continent == s.continent_var
        s1 == IF selected_continent \in DOMAIN s.countries_by_continent
              THEN [s EXCEPT !.country_values =
                                <<AlleLaender>> \o s.countries_by_continent[selected_continent],
                             !.country_var = AlleLaender]
              ELSE s
    IN  ScatterUpdate([s1 EXCEPT !.highlight_country = None])

\* ScatterPlot.on_country_selected, the combobox having set country_var
ScatterOnCountrySelectedOp(s) ==
    ScatterUpdate([s EXCEPT !.highlight_country =
                      IF s.country_var = AlleLaender THEN None ELSE s.country_var])

-----------------------------------------------------------------------------
(* PieDiagram *)

AvgChart == "Durchschnittliche Einschulungsrate nach Kontinent"

RangeChart == "Verteilung nach Einschulungsratenbereichen"

YearChart == "Verteilung der Daten nach Jahr"

chart_options == <<AvgChart, RangeChart, YearChart>>

\* The text of a Spinbox is a sequence of characters.
Digits == <<"0", "1", "2", "3", "4", "5", "6", "7", "8", "9">>

IsDigit(c) == c \in SeqToSet(Digits)

DigitVal(c) == (CHOOSE i \in DOMAIN Digits : Digits[i] = c) - 1

RECURSIVE DigitsVal(_)
DigitsVal(t) ==
    IF t = <<>> THEN 0 ELSE DigitsVal(SubSeq(t, 1, Len(t) - 1)) * 10 + DigitVal(t[Len(t)])

\* float(text), the result in tenths: an optional sign, digits, an optional point
\* and digits (the model's texts carry at most one digit after the point), or
\* nan / inf; anything else raises ValueError (ok = FALSE).
ParseFloat(text) ==
    LET signed == text # <<>> /\ text[1] \in {"-", "+"}
        neg == signed /\ text[1] = "-"
        body == IF signed THEN Tail(text) ELSE text
        dots == {i \in DOMAIN body : body[i] = "."}
        dot == IF dots = {} THEN Len(body) + 1 ELSE CHOOSE i \in dots : \A j \in dots : i <= j
        ip == SubSeq(body, 1, dot - 1)
        fp == SubSeq(body, dot + 1, Len(body))
        numeric == /\ Cardinality(dots) <= 1
                   /\ Len(ip) + Len(fp) >= 1
                   /\ \A i \in DOMAIN ip : IsDigit(ip[i])
                   /\ \A i \in DOMAIN fp : IsDigit(fp[i])
        mag == DigitsVal(ip) * 10 + (IF fp = <<>> THEN 0 ELSE DigitVal(fp[1]))
    IN  IF body = <<"n", "a", "n">> THEN [ok |-> TRUE, kind |-> "nan", val |-> 0]
        ELSE IF body = <<"i", "n", "f">>
             THEN [ok |-> TRUE, kind |-> IF neg THEN "-inf" ELSE "inf", val |-> 0]
        ELSE IF numeric THEN [ok |-> TRUE, kind |-> "num", val |-> IF neg THEN -mag ELSE mag]
        ELSE [ok |-> FALSE, kind |-> "ValueError", val |-> 0]

\* x < limit in Python's float comparison
FloatLt(x, limit) ==
    \/ x.kind = "num" /\ x.val < limit
    \/ x.kind = "-inf"

\* x > limit in Python's float comparison
FloatGt(x, limit) ==
    \/ x.kind = "num" /\ x.val > limit
    \/ x.kind = "inf"

Num(v) == [ok |-> TRUE, kind |-> "num", val |-> v]

\* max(lo, min(hi, x)) as Python evaluates it: min and max return their first
\* argument unless the second is smaller (larger)
Clamp(lo, hi, x) ==
    LET inner == IF FloatLt(x, hi) THEN x ELSE Num(hi)
    IN  IF FloatGt(inner, lo) THEN inner.val ELSE lo

\* the clamping limits of create_range_distribution_chart, in tenths
Percent(p) == p * 10

MinLow == Percent(0)

MinHigh == Percent(100)

StepLow == Percent(5)

StepHigh == Percent(25)

max_val == Percent(100)

\* faulty variant: current = min(current, max_val) is left out
RECURSIVE BuildBinsNoClamp(_, _, _)
BuildBinsNoClamp(bins, current, step_val) ==
    IF current < max_val
    THEN BuildBinsNoClamp(Append(bins, current + step_val), current + step_val, step_val)
    ELSE bins

\* the while loop building the bin edges
RECURSIVE BuildBins(_, _, _)
BuildBins(bins, current, step_val) ==
    IF current < max_val
    THEN LET next == IF current + step_val < max_val THEN current + step_val ELSE max_val
         IN  BuildBins(Append(bins, next), next, step_val)
    ELSE bins

\* f"{b:.0f}" of a non-negative number in tenths: round half to even
Format0f(b) ==
    LET q == b \div 10
        r == b % 10
        n == IF r < 5 THEN q
             ELSE IF r > 5 THEN q + 1
             ELSE IF q % 2 = 0 THEN q ELSE q + 1
    IN  NatToString(n)

RangeLabel(lo, hi) == Format0f(lo) \o "%-" \o Format0f(hi) \o "%"

\* faulty variant: include_lowest is left out
CutIndexNoLowest(rate, bins) ==
    IF Cardinality({i \in DOMAIN bins : bins[i] < rate}) = Len(bins) THEN 0
    ELSE Cardinality({i \in DOMAIN bins : bins[i] < rate})

\* pd.cut(..., include_lowest=True) of one value: the number of the interval
\* (lo, hi] it falls in, the first interval including its lower edge; 0 for NaN
CutIndex(rate, bins) ==
    LET below == Cardinality({i \in DOMAIN bins : bins[i] < rate})
        ids == IF rate = bins[1] THEN 1 ELSE below
    IN  IF ids = 0 \/ ids = Len(bins) THEN 0 ELSE ids

\* value_counts().sort_index() of the categorical: one count per category, in
\* the order of the categories, the empty ones included
RangeCounts(rates, bins) ==
    [k \in 1..(Len(bins) - 1) |-> Cardinality({i \in DOMAIN rates : CutIndex(rates[i], bins) = k})]

RECURSIVE SumSeq(_)
SumSeq(s) == IF s = <<>> THEN 0 ELSE Head(s) + SumSeq(Tail(s))

\* Axes.pie raises ValueError for a negative wedge and, dividing by the sum of
\* the wedges, for wedges that are all zero
PieRaises(values) ==
    \/ \E i \in DOMAIN values : values[i] < 0
    \/ values # <<>> /\ SumSeq(values) = 0

\* min_val and step_val after the clamping
ClampedMin(pmin) == Clamp(MinLow, MinHigh, pmin)

\* faulty variant: the step is not held at 5 or more
ClampedStepNoFloor(pstep) == Clamp(1, StepHigh, pstep)

ClampedStep(pstep) == Clamp(StepLow, StepHigh, pstep)

\* the bin edges built from the parsed texts
RangeBins(pmin, pstep) ==
    BuildBins(<<ClampedMin(pmin)>>, ClampedMin(pmin), ClampedStep(pstep))

RangeLabels(bins) == [i \in 1..(Len(bins) - 1) |-> RangeLabel(bins[i], bins[i + 1])]

\* the except branch: the error text drawn into the axes
RangeFailure == [kind |-> "error", message |-> "Fehler bei der Diagrammerstellung"]

\* the try block of create_range_distribution_chart after the bin edges are built:
\* pd.cut raises for labels that are not unique; no category gives the no-data
\* text; Axes.pie may raise
RangeAxes(bins, range_labels, range_counts) ==
    IF Cardinality(SeqToSet(range_labels)) # Len(range_labels) THEN RangeFailure
    ELSE IF Len(range_counts) = 0
         THEN [kind |-> "nodata", message |-> "Keine Daten in den angegebenen Bereichen"]
    ELSE IF PieRaises(range_counts) THEN RangeFailure
    ELSE [kind |-> "chart", mode |-> RangeChart,
          bins |-> bins,
          labels |-> range_labels,
          values |-> range_counts,
          explode |-> [i \in DOMAIN range_counts |-> FALSE]]

RangeOfBins(df, bins) ==
    RangeAxes(bins, RangeLabels(bins), RangeCounts(Column(df.rows, "Rate"), bins))

\* faulty variant: float() outside the try block
RangeDistributionNoTry(df, min_var, step_var) ==
    IF ~ParseFloat(min_var).ok \/ ~ParseFloat(step_var).ok THEN [kind |-> "exception"]
    ELSE RangeOfBins(df, RangeBins(ParseFloat(min_var), ParseFloat(step_var)))

\* PieDiagram.create_range_distribution_chart
RangeDistribution(df, min_var, step_var) ==
    IF ~ParseFloat(min_var).ok \/ ~ParseFloat(step_var).ok THEN RangeFailure
    ELSE RangeOfBins(df, RangeBins(ParseFloat(min_var), ParseFloat(step_var)))

\* groupby('Continent')[rate].mean(): one group per continent, in the order of
\* the sorted keys, the mean held as the sum and the number of its rows
ContinentMeans(rows) ==
    LET keys == SortedNames(Unique(Column(rows, "Continent")))
    IN  [i \in DOMAIN keys |->
            LET g == SelectEq(rows, "Continent", keys[i])
            IN  [label |-> keys[i], sum |-> SumSeq(Column(g, "Rate")), n |-> Len(g)]]

\* a.sum / a.n >= b.sum / b.n
MeanGe(a, b) == a.sum * b.n >= b.sum * a.n

\* Series.sort_values(ascending=False) of the means, equal means keeping their order
RECURSIVE SortByMeanDesc(_)
MeansFrom(g, m) == <<g[m]>> \o SortByMeanDesc(Without(g, m))

SortByMeanDesc(g) ==
    IF g = <<>> THEN <<>>
    ELSE MeansFrom(g, CHOOSE i \in DOMAIN g :
                         /\ \A j \in DOMAIN g : MeanGe(g[i], g[j])
                         /\ \A j \in 1..(i - 1) : ~MeanGe(g[j], g[i]))

\* explode = [0.1 if i == 0 else 0 ...]
Explode(i) == i = 1

\* PieDiagram.create_continent_avg_chart; it has no try, so a ValueError of
\* Axes.pie leaves it as an exception
AvgAxes(continent_avg) ==
    IF PieRaises([i \in DOMAIN continent_avg |-> continent_avg[i].sum])
    THEN [kind |-> "exception"]
    ELSE [kind |-> "chart", mode |-> AvgChart,
          labels |-> [i \in DOMAIN continent_avg |-> continent_avg[i].label],
          values |-> [i \in DOMAIN continent_avg |->
                        [sum |-> continent_avg[i].sum, n |-> continent_avg[i].n]],
          explode |-> [i \in DOMAIN continent_avg |-> Explode(i)]]

ContinentAvg(df) == AvgAxes(SortByMeanDesc(ContinentMeans(df.rows)))

\* the distinct numbers of a sequence in ascending order
RECURSIVE SortedInts(_)
SortedInts(S) ==
    IF S = {} THEN <<>>
    ELSE LET m == CHOOSE x \in S : \A y \in S : x <= y
         IN  <<m>> \o SortedInts(S \ {m})

\* faulty variant: sort_index() is left out, the years stay as first met
YearDistributionUnsorted(df) ==
    LET years == Column(df.rows, "Year")
        index == Unique(years)
        year_counts == [i \in DOMAIN index |->
                          Cardinality({k \in DOMAIN years : years[k] = index[i]})]
    IN  [kind |-> "chart", mode |-> YearChart,
         labels |-> [i \in DOMAIN index |-> NatToString(index[i])],
         values |-> year_counts,
         explode |-> [i \in DOMAIN index |-> FALSE]]

\* PieDiagram.create_year_distribution_chart
YearDistribution(df) ==
    LET years == Column(df.rows, "Year")
        index == SortedInts(SeqToSet(years))
        year_counts == [i \in DOMAIN index |->
                          Cardinality({k \in DOMAIN years : years[k] = index[i]})]
    IN  IF PieRaises(year_counts)
        THEN [kind |-> "exception"]
        ELSE [kind |-> "chart", mode |-> YearChart,
              labels |-> [i \in DOMAIN index |-> NatToString(index[i])],
              values |-> year_counts,
              explode |-> [i \in DOMAIN index |-> FALSE]]

\* faulty variant: the chart is made of the rows of one continent only
PieComputeOneContinent(df, chart_type, min_var, step_var) ==
    LET part == DataFrame(IF df.rows = <<>> THEN <<>>
                          ELSE SelectEq(df.rows, "Continent", df.rows[1].Continent))
    IN  IF chart_type = AvgChart THEN ContinentAvg(part)
        ELSE IF chart_type = RangeChart THEN RangeDistribution(part, min_var, step_var)
        ELSE IF chart_type = YearChart THEN YearDistribution(part)
        ELSE [kind |-> "blank"]

\* what PieDiagram.update leaves on the axes: the filters of the other diagrams
\* are not read
PieCompute(df, chart_type, min_var, step_var) ==
    IF chart_type = AvgChart THEN ContinentAvg(df)
    ELSE IF chart_type = RangeChart THEN RangeDistribution(df, min_var, step_var)
    ELSE IF chart_type = YearChart THEN YearDistribution(df)
    ELSE [kind |-> "blank"]

\* PieDiagram after __init__
InitPie ==
    [df |-> NoDf, chart_type_var |-> AvgChart,
     min_var |-> <<"6", "0">>, step_var |-> <<"1", "0">>,
     out |-> [kind |-> "hint"]]

\* PieDiagram.update; raised tells whether an exception leaves it
PieDrawn(p, o) == [pie |-> [p EXCEPT !.out = o], raised |-> o.kind = "exception"]

PieUpdate(p) ==
    IF p.df.isNone THEN [pie |-> p, raised |-> FALSE]
    ELSE PieDrawn(p, PieCompute(p.df, p.chart_type_var, p.min_var, p.step_var))

\* Diagram.set_data, inherited by PieDiagram
PieSetData(p, df) == PieUpdate([p EXCEPT !.df = df])

-----------------------------------------------------------------------------
(* PlotterDiagram *)

\* sorted(zip(entity_years, entity_rates)): ascending by year, then by rate
RECURSIVE SortedPairs(_)
PairsFrom(ps, m) == <<ps[m]>> \o SortedPairs(Without(ps, m))

SortedPairs(ps) ==
    IF ps = <<>> THEN <<>>
    ELSE PairsFrom(ps, CHOOSE i \in DOMAIN ps : \A j \in DOMAIN ps :
                          \/ ps[i][1] < ps[j][1]
                          \/ ps[i][1] = ps[j][1] /\ ps[i][2] <= ps[j][2])

\* the legend of a panel is drawn for at most 15 entities
PanelLegendMax == 15

\* the scatter and the trend line of one entity of a panel
EntitySeries(entity, pts) ==
    [label |-> entity,
     points |-> pts,
     line |-> IF Len(pts) > 1 THEN SortedPairs(pts) ELSE <<>>]

\* one subplot, given the rows of its continent and their sorted entities
PanelAxes(continent, crows, unique_entities) ==
    [title |-> "Einschulung - " \o continent,
     series |-> [j \in DOMAIN unique_entities |->
                   EntitySeries(unique_entities[j],
                                PointsOf(SelectEq(crows, "Entity", unique_entities[j])))],
     legend |-> Len(unique_entities) <= PanelLegendMax,
     count |-> IF Len(unique_entities) <= PanelLegendMax THEN 0 ELSE Len(unique_entities)]

\* one subplot of PlotterDiagram.update
Panel(rows, continent) ==
    PanelAxes(continent, SelectEq(rows, "Continent", continent),
              SortedNames(Unique(Column(SelectEq(rows, "Continent", continent), "Entity"))))

\* what PlotterDiagram.update draws: one panel per continent
PlotterCompute(df) ==
    LET unique_continents == SortedNames(Unique(Column(df.rows, "Continent")))
    IN  [kind |-> "panels",
         panels |-> [i \in DOMAIN unique_continents |-> Panel(df.rows, unique_continents[i])]]

\* plt.subplots(0, 1) raises ValueError
SubplotsRaises(nrows) == nrows <= 0

InitPlotter == [df |-> NoDf, out |-> [kind |-> "hint"]]

\* PlotterDiagram.update; when plt.subplots raises, self.figure and the canvas
\* are not replaced: what was drawn before stays (a blank figure the first time)
PlotterUpdate(q) ==
    IF q.df.isNone THEN [plotter |-> q, raised |-> FALSE]
    ELSE IF SubplotsRaises(Len(Unique(Column(q.df.rows, "Continent"))))
    THEN [plotter |-> [q EXCEPT !.out = IF q.out.kind = "hint" THEN [kind |-> "blank"] ELSE q.out],
          raised |-> TRUE]
    ELSE [plotter |-> [q EXCEPT !.out = PlotterCompute(q.df)], raised |-> FALSE]

\* Diagram.set_data, inherited by PlotterDiagram
PlotterSetData(q, df) == PlotterUpdate([q EXCEPT !.df = df])

-----------------------------------------------------------------------------
(* EinschulungsApp *)

\* A header cell of a CSV file: the column name with what surrounds it in the
\* file (nothing, a single quote, a blank).  pandas keeps the cell as it is.
Header(pre, name, post) == [pre |-> pre, name |-> name, post |-> post]

Plain(name) == Header("", name, "")

\* h.strip('"\' ')
Strip(h) == Header("", h.name, "")

\* a CSV file on disk: readable or not, its header cells, its data rows
File(readable, headers, rows) == [readable |-> readable, headers |-> headers, rows |-> rows]

\* no message box is open
NoMessage == [kind |-> "none", cols |-> <<>>]

\* app.message is the message box load_csv_file has left open; messagebox is
\* modal, so the box is closed before any other handler runs
InitApp == [df |-> NoDf, file_path |-> "", message |-> NoMessage]

Dismissed(a) == [a EXCEPT !.message = NoMessage]

InitState ==
    [app |-> InitApp, bar |-> InitFiltered, scatter |-> InitFiltered,
     pie |-> InitPie, plotter |-> InitPlotter]

\* the column labels of the DataFrame after the optional renaming
LoadedColumns(headers) ==
    LET columns == headers
        cleaned_headers == [i \in DOMAIN headers |-> Strip(headers[i])]
    IN  IF Plain(EntityCol) \notin SeqToSet(columns) /\ Plain(EntityCol) \in SeqToSet(cleaned_headers)
        THEN cleaned_headers
        ELSE columns

\* missing_cols = [col for col in required_columns if col not in df.columns]
RECURSIVE MissingFrom(_, _)
MissingFrom(required, columns) ==
    IF required = <<>> THEN <<>>
    ELSE LET rest == MissingFrom(Tail(required), columns)
         IN  IF Plain(Head(required)) \in SeqToSet(columns) THEN rest ELSE <<Head(required)>> \o rest

MissingCols(headers) == MissingFrom(required_columns, LoadedColumns(headers))

ErrorMessage == [kind |-> "error", cols |-> <<>>]

\* the four set_data calls of load_csv_file, inside its try: an exception of
\* one of them skips the calls after it and shows the error box
AfterSetData(st, b, s, p, q) ==
    IF p.raised
    THEN [st EXCEPT !.bar = b, !.scatter = s, !.pie = p.pie,
                    !.app.message = ErrorMessage]
    ELSE IF q.raised
    THEN [st EXCEPT !.bar = b, !.scatter = s, !.pie = p.pie, !.plotter = q.plotter,
                    !.app.message = ErrorMessage]
    ELSE [st EXCEPT !.bar = b, !.scatter = s, !.pie = p.pie, !.plotter = q.plotter]

SetAllData(st, df) ==
    AfterSetData(st, BarSetData(st.bar, df), ScatterSetData(st.scatter, df),
                 PieSetData(st.pie, df), PlotterSetData(st.plotter, df))

\* faulty variant: self.df is assigned before the columns are validated
LoadResultAssignsFirst(st0, file_path, file) ==
    LET st == [st0 EXCEPT !.app = Dismissed(st0.app)]
    IN  IF file_path = "" THEN st
        ELSE IF ~file.readable THEN [st EXCEPT !.app.message = ErrorMessage]
        ELSE IF MissingCols(file.headers) # <<>>
        THEN [st EXCEPT !.app.df = DataFrame(file.rows),
                        !.app.message = [kind |-> "missing", cols |-> MissingCols(file.headers)]]
        ELSE SetAllData([st EXCEPT !.app.df = DataFrame(file.rows), !.app.file_path = file_path],
                        DataFrame(file.rows))

\* EinschulungsApp.load_csv_file, the dialog having returned file_path and the
\* file at that path being file
LoadResult(st0, file_path, file) ==
    LET st == [st0 EXCEPT !.app = Dismissed(st0.app)]
    IN  IF file_path = "" THEN st
        ELSE IF ~file.readable THEN [st EXCEPT !.app.message = ErrorMessage]
        ELSE IF MissingCols(file.headers) # <<>>
        THEN [st EXCEPT !.app.message = [kind |-> "missing", cols |-> MissingCols(file.headers)]]
        ELSE SetAllData([st EXCEPT !.app.df = DataFrame(file.rows), !.app.file_path = file_path],
                        DataFrame(file.rows))

State == [app |-> app, bar |-> bar, scatter |-> scatter, pie |-> pie, plotter |-> plotter]

Becomes(st) ==
    \E r \in {st} :
        /\ app' = r.app
        /\ bar' = r.bar
        /\ scatter' = r.scatter
        /\ pie' = r.pie
        /\ plotter' = r.plotter

Is(st) ==
    /\ app = st.app
    /\ bar = st.bar
    /\ scatter = st.scatter
    /\ pie = st.pie
    /\ plotter = st.plotter

-----------------------------------------------------------------------------
(* Inputs of the application specification *)

RowUniverse ==
    {Row("Ghana", "Africa", 2012, 625), Row("Ghana", "Africa", 2010, 740),
     Row("France", "Europe", 2015, 991)}

SeqsUpTo(S, n) == UNION {[1..k -> S] : k \in 0..n}

\* the DataFrames of the application specification: up to MaxRows different
\* rows of RowUniverse, in every order
Datasets == {d \in SeqsUpTo(RowUniverse, MaxRows) : Cardinality(SeqToSet(d)) = Len(d)}

GoodHeaders == <<Plain(EntityCol), Plain(ContinentCol), Plain(YearCol), Plain(RateCol)>>

\* every cell in single quotes: the renaming of load_csv_file repairs it
QuotedHeaders == [i \in DOMAIN GoodHeaders |-> Header("'", GoodHeaders[i].name, "'")]

\* only Year in quotes: no renaming, Year is missing
QuotedYearHeaders == [GoodHeaders EXCEPT ![3] = Header("'", YearCol, "'")]

NoYearNoRateHeaders == <<Plain(EntityCol), Plain(ContinentCol), Plain("Code")>>

SampleRows == <<Row("Ghana", "Africa", 2012, 625), Row("France", "Europe", 2015, 991)>>

Files ==
    {File(TRUE, GoodHeaders, d) : d \in Datasets}
    \cup {File(TRUE, h, SampleRows) : h \in {QuotedHeaders, QuotedYearHeaders, NoYearNoRateHeaders}}
    \cup {File(FALSE, <<>>, <<>>)}

\* what the file dialog returns: "" when it is cancelled
Paths == {"", "data.csv"}

\* the files that may be found at a path; no file is read when the dialog is cancelled
FilesAt(file_path) == IF file_path = "" THEN {File(FALSE, <<>>, <<>>)} ELSE Files

\* texts typed into the two Spinboxes
MinTexts == {<<"6", "0">>, <<"1", "0", "0">>, <<"a", "b", "c">>}

StepTexts == {<<"1", "0">>, <<"2", "5">>}

-----------------------------------------------------------------------------
(* Actions *)

\* menu "CSV-Datei öffnen"
LoadCsvFile(file_path, file) == Becomes(LoadResult(State, file_path, file))

\* <<ComboboxSelected>> of the continent combobox of the bar diagram
BarOnContinentSelected(c) ==
    /\ bar.combo_state = "readonly"
    /\ c \in SeqToSet(bar.continent_values)
    /\ bar' = BarOnContinentSelectedOp([bar EXCEPT !.continent_var = c])
    /\ app' = Dismissed(app)
    /\ UNCHANGED <<scatter, pie, plotter>>

\* <<ComboboxSelected>> of the country combobox of the bar diagram
BarOnCountrySelected(c) ==
    /\ bar.combo_state = "readonly"
    /\ c \in SeqToSet(bar.country_values)
    /\ bar' = BarOnCountrySelectedOp([bar EXCEPT !.country_var = c])
    /\ app' = Dismissed(app)
    /\ UNCHANGED <<scatter, pie, plotter>>

ScatterOnContinentSelected(c) ==
    /\ scatter.combo_state = "readonly"
    /\ c \in SeqToSet(scatter.continent_values)
    /\ scatter' = ScatterOnContinentSelectedOp([scatter EXCEPT !.continent_var = c])
    /\ app' = Dismissed(app)
    /\ UNCHANGED <<bar, pie, plotter>>

ScatterOnCountrySelected(c) ==
    /\ scatter.combo_state = "readonly"
    /\ c \in SeqToSet(scatter.country_values)
    /\ scatter' = ScatterOnCountrySelectedOp([scatter EXCEPT !.country_var = c])
    /\ app' = Dismissed(app)
    /\ UNCHANGED <<bar, pie, plotter>>

\* PieDiagram.on_chart_type_selected
PieOnChartTypeSelected(t) ==
    /\ t \in SeqToSet(chart_options)
    /\ pie' = PieUpdate([pie EXCEPT !.chart_type_var = t]).pie
    /\ app' = Dismissed(app)
    /\ UNCHANGED <<bar, scatter, plotter>>

\* typing into the Spinbox "Minimaler Bereich"; the range frame is packed only
\* while the chart type is the range distribution
PieSetMin(text) ==
    /\ pie.chart_type_var = RangeChart
    /\ pie' = [pie EXCEPT !.min_var = text]
    /\ app' = Dismissed(app)
    /\ UNCHANGED <<bar, scatter, plotter>>

\* typing into the Spinbox "Schrittgröße"
PieSetStep(text) ==
    /\ pie.chart_type_var = RangeChart
    /\ pie' = [pie EXCEPT !.step_var = text]
    /\ app' = Dismissed(app)
    /\ UNCHANGED <<bar, scatter, plotter>>

\* the button "Aktualisieren": command=self.update
PieUpdateButton ==
    /\ pie' = PieUpdate(pie).pie
    /\ app' = Dismissed(app)
    /\ UNCHANGED <<bar, scatter, plotter>>

\* EinschulungsApp.on_tab_changed to the tab with the given index
OnTabChanged(current_tab_index) ==
    /\ current_tab_index \in 0..4
    /\ app' = Dismissed(app)
    /\ IF app.df.isNone THEN UNCHANGED <<bar, scatter, pie, plotter>>
       ELSE /\ bar' = IF current_tab_index = 1 THEN BarUpdate(bar) ELSE bar
            /\ scatter' = IF current_tab_index = 2 THEN ScatterUpdate(scatter) ELSE scatter
            /\ pie' = IF current_tab_index = 3 THEN PieUpdate(pie).pie ELSE pie
            /\ plotter' = IF current_tab_index = 4 THEN PlotterUpdate(plotter).plotter ELSE plotter

Init == Is(InitState)

\* The application specification: the loads, the filter events of the bar and
\* scatter diagrams and the tab changes.  The pie diagram keeps the chart type
\* and the Spinbox texts of its __init__ here; its events are in SpecRange.
Next ==
    \/ \E file_path \in Paths : \E file \in FilesAt(file_path) : LoadCsvFile(file_path, file)
    \/ \E c \in SeqToSet(NameOrder) \cup {Alle} : BarOnContinentSelected(c)
    \/ \E c \in SeqToSet(NameOrder) \cup {AlleLaender} : BarOnCountrySelected(c)
    \/ \E c \in SeqToSet(NameOrder) \cup {Alle} : ScatterOnContinentSelected(c)
    \/ \E c \in SeqToSet(NameOrder) \cup {AlleLaender} : ScatterOnCountrySelected(c)
    \/ \E i \in 0..4 : OnTabChanged(i)

Spec == Init /\ [][Next]_vars

-----------------------------------------------------------------------------
(* The ranking engine on richer DataFrames: a DataFrame of EngineDatasets    *)
(* has been loaded into the fresh application, then the comboboxes of the    *)
(* bar diagram are used.                                                     *)

EngineRows ==
    {Row("Ghana", "Africa", 2010, 625), Row("Ghana", "Africa", 2012, 740),
     Row("Ghana", "Africa", 2010, 740), Row("Kenya", "Africa", 2012, 740),
     Row("Kenya", "Africa", 2010, 991), Row("France", "Europe", 2015, 991),
     Row("France", "Europe", 2010, 625), Row("Kenya", "Asia", 2012, 0)}

EngineDatasets == SeqsUpTo(EngineRows, MaxEngineRows)

\* the application after its first load of a well-formed file with these rows
Loaded(rows) == LoadResult(InitState, "data.csv", File(TRUE, GoodHeaders, rows))

InitRanking == \E d \in EngineDatasets : \E r \in {Loaded(d)} : Is([r EXCEPT !.app = Dismissed(r.app)])

NextRanking ==
    \/ \E c \in SeqToSet(NameOrder) \cup {Alle} : BarOnContinentSelected(c)
    \/ \E c \in SeqToSet(NameOrder) \cup {AlleLaender} : BarOnCountrySelected(c)

SpecRanking == InitRanking /\ [][NextRanking]_vars

-----------------------------------------------------------------------------
(* The range distribution: a DataFrame has been loaded, the chart type set   *)
(* to the range distribution, texts typed into the two Spinboxes; then the   *)
(* button "Aktualisieren" is pressed.                                        *)

\* longest DataFrame of the range specification
MaxRangeRows == 2

RangeRates == {0, 600, 625, 700, 1000, 1001}

RangeDatasets ==
    {[i \in DOMAIN rs |-> Row("Ghana", "Africa", 2010, rs[i])] : rs \in SeqsUpTo(RangeRates, MaxRangeRows)}

\* the characters of a natural number
RECURSIVE NatToChars(_)
NatToChars(n) == IF n < 10 THEN <<Digits[n + 1]>> ELSE Append(NatToChars(n \div 10), Digits[(n % 10) + 1])

\* the text a user types for a number of tenths: "62.5", "-1.0", and "60" for
\* a whole number
TextOf(t) ==
    LET a == IF t < 0 THEN -t ELSE t
        sign == IF t < 0 THEN <<"-">> ELSE <<>>
    IN  IF a % 10 = 0 THEN sign \o NatToChars(a \div 10)
        ELSE sign \o NatToChars(a \div 10) \o <<".", Digits[(a % 10) + 1]>>

OtherTexts == {<<"a", "b", "c">>, <<>>, <<"n", "a", "n">>, <<"i", "n", "f">>, <<"-", "i", "n", "f">>}

\* texts tried with every DataFrame of RangeDatasets
MinTextsCoarse == {TextOf(t) : t \in {-50, 0, 300, 600, 625, 700, 925, 996, 1000, 1050}} \cup OtherTexts

StepTextsCoarse == {TextOf(t) : t \in {30, 50, 75, 100, 250, 300}} \cup {<<"a", "b", "c">>, <<"n", "a", "n">>}

\* texts tried with one DataFrame: every half percent from -1 to 101 and from 4 to 26
MinTextsFine == {TextOf(5 * k) : k \in -2..202}

StepTextsFine == {TextOf(5 * k) : k \in 8..52}

SweepRows == <<Row("Ghana", "Africa", 2010, 625), Row("Kenya", "Africa", 2012, 740),
               Row("France", "Europe", 2015, 991)>>

\* the state after the load, the choice of the range distribution and the typing
RangeReady(st, min_text, step_text) ==
    [st EXCEPT !.app = Dismissed(st.app),
               !.pie = [PieUpdate([st.pie EXCEPT !.chart_type_var = RangeChart]).pie
                           EXCEPT !.min_var = min_text, !.step_var = step_text]]

InitRange ==
    \/ \E d \in RangeDatasets : \E r \in {Loaded(d)} :
          \E m \in MinTextsCoarse, t \in StepTextsCoarse : Is(RangeReady(r, m, t))
    \/ \E r \in {Loaded(SweepRows)} :
          \E m \in MinTextsFine, t \in StepTextsFine : Is(RangeReady(r, m, t))

NextRange == PieUpdateButton

SpecRange == InitRange /\ [][NextRange]_vars

-----------------------------------------------------------------------------
(* The trend engine on DataFrames of many countries: a DataFrame of          *)
(* TrendDatasets has been loaded into the fresh application, then the        *)
(* comboboxes of the scatter diagram are used.                               *)

\* most countries of Africa in a DataFrame of the trend specification
MaxTrendEntities == 17

AfricanNames ==
    <<"Algeria", "Angola", "Benin", "Botswana", "Burundi", "Cameroon", "Chad", "Congo",
      "Egypt", "Eritrea", "Ethiopia", "Gabon", "Gambia", "Ghana", "Guinea", "Kenya",
      "Lesotho", "Liberia", "Libya", "Mali">>

NameCount(n) == IF n < Len(AfricanNames) THEN n ELSE Len(AfricanNames)

\* one row for each of the first n countries of Africa
ManyRows(n) ==
    [i \in 1..NameCount(n) |-> Row(AfricanNames[i], "Africa", 2000 + i, 400 + 25 * i)]

\* n countries of Africa; the same with a row of Europe; the same with a
\* second row of the first country
TrendDatasets ==
    {ManyRows(n) : n \in 0..MaxTrendEntities}
    \cup {ManyRows(n) \o <<Row("France", "Europe", 2015, 991)>> : n \in 0..MaxTrendEntities}
    \cup {ManyRows(n) \o <<Row("Algeria", "Africa", 2015, 500)>> : n \in 1..MaxTrendEntities}

InitTrend == \E d \in TrendDatasets : \E r \in {Loaded(d)} : Is([r EXCEPT !.app = Dismissed(r.app)])

NextTrend ==
    \/ \E c \in SeqToSet(NameOrder) \cup {Alle} : ScatterOnContinentSelected(c)
    \/ \E c \in SeqToSet(NameOrder) \cup {AlleLaender} : ScatterOnCountrySelected(c)

SpecTrend == InitTrend /\ [][NextTrend]_vars

-----------------------------------------------------------------------------
(* The pie diagram: a DataFrame of CompositionDatasets has been loaded into  *)
(* the fresh application; then the chart type is chosen, filters of the bar  *)
(* and scatter diagrams are set and the tab of the pie diagram is shown.     *)

\* longest DataFrame of the composition specification
MaxCompositionRows == 2

CompositionRows ==
    {Row("Ghana", "Africa", 2010, 625), Row("Kenya", "Africa", 2012, 740),
     Row("France", "Europe", 2015, 991), Row("Kenya", "Asia", 2015, 991),
     Row("Ghana", "Africa", 2012, 0)}

\* DataFrames of three rows: the rows of three continents with the years not
\* in order, and Ghana, Kenya, France as in the example of the ranking
CompositionSamples ==
    {<<Row("France", "Europe", 2015, 991), Row("Ghana", "Africa", 2010, 625),
       Row("Kenya", "Asia", 2015, 991)>>,
     <<Row("Ghana", "Africa", 2010, 625), Row("Kenya", "Africa", 2012, 740),
       Row("France", "Europe", 2015, 991)>>}

\* every sequence of up to MaxCompositionRows rows, and the samples
CompositionDatasets == SeqsUpTo(CompositionRows, MaxCompositionRows) \cup CompositionSamples

InitComposition ==
    \E d \in CompositionDatasets : \E r \in {Loaded(d)} : Is([r EXCEPT !.app = Dismissed(r.app)])

NextComposition ==
    \/ \E t \in SeqToSet(chart_options) : PieOnChartTypeSelected(t)
    \/ \E c \in SeqToSet(NameOrder) \cup {Alle} : BarOnContinentSelected(c)
    \/ \E c \in SeqToSet(NameOrder) \cup {AlleLaender} : ScatterOnCountrySelected(c)
    \/ OnTabChanged(3)

SpecComposition == InitComposition /\ [][NextComposition]_vars

-----------------------------------------------------------------------------
(* The continent diagrams: a DataFrame of PanelDatasets has been loaded into *)
(* the fresh application; then its tab is shown, or a file without data rows *)
(* is loaded.                                                                *)

\* longest DataFrame of the panel specification
MaxPanelRows == 3

PanelRows ==
    {Row("Kenya", "Africa", 2012, 740), Row("Ghana", "Africa", 2012, 625),
     Row("Ghana", "Africa", 2010, 740), Row("France", "Europe", 2015, 991),
     Row("Kenya", "Asia", 2010, 0)}

PanelDatasets == SeqsUpTo(PanelRows, MaxPanelRows)

\* a CSV file that holds the header line and nothing else
HeaderOnlyFile == File(TRUE, GoodHeaders, <<>>)

InitPanel == \E d \in PanelDatasets : \E r \in {Loaded(d)} : Is([r EXCEPT !.app = Dismissed(r.app)])

NextPanel ==
    \/ OnTabChanged(4)
    \/ LoadCsvFile("data.csv", HeaderOnlyFile)

SpecPanel == InitPanel /\ [][NextPanel]_vars

-----------------------------------------------------------------------------
(* Properties of the filters, checked under Spec *)

ContinentChoices == {Alle, "Africa", "Asia", "Europe"}

CountryChoices == {AlleLaender, "France", "Ghana", "Kenya", "Mali"}

NoBarHighlighted(o) ==
    o.kind = "chart" => \A i \in DOMAIN o.bars : o.bars[i].color = "skyblue"

\* C1: every on_continent_selected, of the bar diagram and of the scatter
\* diagram, leaves that diagram's country selection at "Alle Länder" and its
\* highlight cleared, whatever continent and country were selected before.
C1_CascadingReset ==
    [][/\ (\E c \in ContinentChoices : BarOnContinentSelected(c))
            => /\ bar'.country_var = AlleLaender
               /\ bar'.highlight_country = None
               /\ NoBarHighlighted(bar'.out)
       /\ (\E c \in ContinentChoices : ScatterOnContinentSelected(c))
            => /\ scatter'.country_var = AlleLaender
               /\ scatter'.highlight_country = None]_vars

\* Both diagrams have had a continent selected in a DataFrame of two
\* continents: the country lists are narrowed to the continent.
C1_Witness ==
    /\ bar.continent_var = "Europe"
    /\ bar.country_values = <<AlleLaender, "France">>
    /\ "Ghana" \in SeqToSet(bar.countries_by_continent[Alle])
    /\ bar.country_var = AlleLaender
    /\ scatter.continent_var = "Africa"
    /\ scatter.country_values = <<AlleLaender, "Ghana">>
    /\ "France" \in SeqToSet(scatter.countries_by_continent[Alle])
    /\ scatter.country_var = AlleLaender

\* the country selection of a diagram names an entity of the loaded DataFrame
\* within the selected continent
SelectionIsMember(c) ==
    \/ c.country_var = AlleLaender
    \/ \E i \in DOMAIN app.df.rows :
          /\ app.df.rows[i].Entity = c.country_var
          /\ c.continent_var = Alle \/ app.df.rows[i].Continent = c.continent_var

\* C2: once a DataFrame is loaded, the country selection of the bar diagram and
\* of the scatter diagram is "Alle Länder" or an entity that has a row of the
\* loaded DataFrame in the selected continent (in any continent for "Alle").
C2_FilterMembership ==
    ~app.df.isNone => SelectionIsMember(bar) /\ SelectionIsMember(scatter)

C2_Witness ==
    /\ Len(app.df.rows) = 2
    /\ bar.continent_var = "Africa" /\ bar.country_var = "Ghana"
    /\ scatter.continent_var = Alle /\ scatter.country_var = "France"

\* C3: a bar of the ranking is highlighted exactly when a country is selected
\* and the bar is that country's; with "Alle Länder" no bar is highlighted.
C3_RankingHighlight ==
    bar.out.kind = "chart" =>
        \A i \in DOMAIN bar.out.bars :
            (bar.out.bars[i].color = "orange")
                <=> (bar.country_var # AlleLaender /\ bar.out.bars[i].entity = bar.country_var)

\* a load of this file passes the column validation
PassesValidation(file) == file.readable /\ MissingCols(file.headers) = <<>>

\* C4: after every load that passes the column validation both filters of the
\* bar and of the scatter diagram are at "Alle" / "Alle Länder" and all four
\* diagrams show what their update computes from the new DataFrame.
C4_LoadResetsFilters ==
    [][\A file \in Files :
          (/\ PassesValidation(file)
           /\ app'.df = DataFrame(file.rows)
           /\ LoadCsvFile("data.csv", file))
          => /\ bar'.continent_var = Alle /\ bar'.country_var = AlleLaender
             /\ scatter'.continent_var = Alle /\ scatter'.country_var = AlleLaender
             /\ bar'.out = BarCompute(app'.df, Alle, bar'.highlight_country)
             /\ scatter'.out = ScatterCompute(app'.df, Alle, AlleLaender)
             /\ pie'.out = PieCompute(app'.df, pie'.chart_type_var, pie'.min_var, pie'.step_var)
             /\ plotter'.out = PlotterCompute(app'.df)]_vars

\* C6: with a country selected the scatter diagram plots one series whose
\* points are in ascending order of year.
C6_TrendSingleAscending ==
    (scatter.out.kind = "chart" /\ scatter.out.mode = "single")
        => /\ Len(scatter.out.series) = 1
           /\ \A i, j \in DOMAIN scatter.out.series[1].points :
                 i < j => scatter.out.series[1].points[i][1] <= scatter.out.series[1].points[j][1]

\* the rows a continent and a country selection match
Matching(rows, continent, country) ==
    {i \in DOMAIN rows :
        /\ continent = Alle \/ rows[i].Continent = continent
        /\ country = AlleLaender \/ rows[i].Entity = country}

\* the no-data outcome: a message and nothing else
IsNoData(o) == o.kind = "nodata" /\ o.message # "" /\ DOMAIN o = {"kind", "message"}

\* C10: whenever the filters of the ranking or of the trend engine match no row
\* (an empty DataFrame, or a continent or country without rows) the engine
\* gives the no-data outcome with a message and no series; it does not raise.
C10_EmptyFilterResult ==
    ~app.df.isNone =>
        /\ Matching(bar.df.rows, bar.continent_var, AlleLaender) = {} => IsNoData(bar.out)
        /\ Matching(scatter.df.rows, scatter.continent_var, scatter.country_var) = {}
              => IsNoData(scatter.out)
        /\ \A c \in ContinentChoices :
              Matching(app.df.rows, c, AlleLaender) = {}
                  => IsNoData(BarCompute(app.df, c, bar.highlight_country))
        /\ \A c \in ContinentChoices, y \in CountryChoices :
              Matching(app.df.rows, c, y) = {} => IsNoData(ScatterCompute(app.df, c, y))

\* an empty DataFrame is loaded and both diagrams show the no-data text
C10_Witness ==
    /\ ~app.df.isNone /\ app.df.rows = <<>>
    /\ bar.out.kind = "nodata" /\ scatter.out.kind = "nodata"
-----------------------------------------------------------------------------
(* Properties of the ranking, checked under SpecRanking *)

Triple(entity, value, year) == <<entity, value, year>>

\* C5: the ranking contains exactly the rows of the DataFrame whose continent
\* is the selected one (every row for "Alle"), each as often as it occurs,
\* nothing dropped and nothing added, in order of non-increasing rate.
C5_RankingSelectionAndOrder ==
    LET rows == bar.df.rows
        match == Matching(rows, bar.continent_var, AlleLaender)
        bars == IF bar.out.kind = "chart" THEN bar.out.bars ELSE <<>>
        OfRow(i) == Triple(rows[i].Entity, rows[i].Rate, rows[i].Year)
        OfBar(k) == Triple(bars[k].entity, bars[k].value, bars[k].year)
    IN  /\ Len(bars) = Cardinality(match)
        /\ \A i \in match :
              Cardinality({k \in DOMAIN bars : OfBar(k) = OfRow(i)})
                  = Cardinality({j \in match : OfRow(j) = OfRow(i)})
        /\ \A k \in DOMAIN bars : \E i \in match : OfBar(k) = OfRow(i)
        /\ \A k \in 1..(Len(bars) - 1) : bars[k].value >= bars[k + 1].value
        /\ (rows = <<Row("Ghana", "Africa", 2010, 625), Row("Kenya", "Africa", 2012, 740),
                     Row("France", "Europe", 2015, 991)>> /\ bar.continent_var = Alle)
              => [k \in DOMAIN bars |-> OfBar(k)]
                    = <<Triple("France", 991, 2015), Triple("Kenya", 740, 2012),
                        Triple("Ghana", 625, 2010)>>

\* "Africa" is selected in a DataFrame that also has a row of Europe; the two
\* rows of Africa are drawn in the reverse of their order in the DataFrame.
C5_Witness ==
    /\ bar.df.rows = <<Row("Ghana", "Africa", 2010, 625), Row("France", "Europe", 2015, 991),
                       Row("Kenya", "Africa", 2010, 991)>>
    /\ bar.continent_var = "Africa"
    /\ bar.out.kind = "chart"
    /\ [k \in DOMAIN bar.out.bars |-> bar.out.bars[k].entity] = <<"Kenya", "Ghana">>

-----------------------------------------------------------------------------
(* Properties of the range distribution, checked under SpecRange *)

\* both spinbox texts are finite numbers
NumericTexts(p) ==
    ParseFloat(p.min_var).kind = "num" /\ ParseFloat(p.step_var).kind = "num"

ClampTo(v, lo, hi) == IF v < lo THEN lo ELSE IF v > hi THEN hi ELSE v

\* the lower end of the range, and the step, in tenths of a percent
LowOf(p) == ClampTo(ParseFloat(p.min_var).val, 0, 1000)

StepOf(p) == ClampTo(ParseFloat(p.step_var).val, 50, 250)

\* the rows whose rate lies in [lo, 100]
InRange(rows, lo) == {i \in DOMAIN rows : lo <= rows[i].Rate /\ rows[i].Rate <= 1000}

\* C7: for numeric min and step the boundaries start at min clamped to
\* [0,100], are strictly ascending, each step (clamped to [5,25]) after the
\* one before except that the last is cut at 100, and end at exactly 100;
\* a range chart drawn by the update has exactly these boundaries.
C7_BucketBoundaries ==
    [][(PieUpdateButton /\ NumericTexts(pie)) =>
          LET bins == RangeBins(ParseFloat(pie.min_var), ParseFloat(pie.step_var))
              n == Len(bins)
          IN  /\ n >= 1
              /\ bins[1] = LowOf(pie)
              /\ bins[n] = 1000
              /\ \A i \in 1..(n - 1) : bins[i] < bins[i + 1]
              /\ \A i \in 1..(n - 2) : bins[i + 1] - bins[i] = StepOf(pie)
              /\ n >= 2 => bins[n] - bins[n - 1] <= StepOf(pie)
              /\ pie'.out.kind = "chart" => pie'.out.bins = bins]_vars

\* a chart drawn for min 62.5 and step 10: the last bucket is the short one
C7_Witness ==
    /\ pie.min_var = TextOf(625) /\ pie.step_var = TextOf(100)
    /\ pie.out.kind = "chart"
    /\ pie.out.bins = <<625, 725, 825, 925, 1000>>

\* what the update may show for the rows in range: every such row in exactly
\* one bucket, the bucket whose interval holds its rate
CountsPartition(p, o) ==
    LET rows == p.df.rows
        lo == LowOf(p)
    IN  /\ InRange(rows, lo) # {} => o.kind = "chart"
        /\ o.kind = "chart" =>
             /\ o.bins[1] = lo
             /\ Len(o.values) = Len(o.bins) - 1
             /\ SumSeq(o.values) = Cardinality(InRange(rows, lo))
             /\ \A k \in DOMAIN o.values :
                   /\ o.values[k] <= Cardinality({i \in DOMAIN rows :
                          o.bins[k] <= rows[i].Rate /\ rows[i].Rate <= o.bins[k + 1]})
                   /\ o.values[k] >= Cardinality({i \in DOMAIN rows :
                          \/ o.bins[k] < rows[i].Rate /\ rows[i].Rate < o.bins[k + 1]
                          \/ k = 1 /\ rows[i].Rate = lo})
             /\ (p.min_var = <<"6", "0">> /\ p.step_var = <<"1", "0">> /\ rows = SweepRows)
                   => /\ o.labels = <<"60%-70%", "70%-80%", "80%-90%", "90%-100%">>
                      /\ o.values = <<1, 1, 0, 1>>

\* C8 as stated: every row with min <= rate <= 100 is counted in exactly one
\* bucket, a row of rate min in the first one, for every numeric min and step.
C8_BucketPartitionAll ==
    [][(PieUpdateButton /\ NumericTexts(pie)) => CountsPartition(pie, pie'.out)]_vars

\* C8: for numeric min and step with min (clamped) below 100, every row with
\* min <= rate <= 100 is counted in exactly one bucket, the one whose interval
\* holds its rate, rate = min in the first; the counts add up to the number of
\* such rows; min 60, step 10 and rates 62.5, 74.0, 99.1 give 1, 1, 0, 1.
C8_BucketPartition ==
    [][(PieUpdateButton /\ NumericTexts(pie) /\ LowOf(pie) < 1000)
          => CountsPartition(pie, pie'.out)]_vars

\* min 62.5 and step 7.5: the rate at min and the rate at the upper edge of the
\* first bucket are both counted there
C8_Witness ==
    /\ pie.min_var = TextOf(625) /\ pie.step_var = TextOf(75)
    /\ [i \in DOMAIN pie.df.rows |-> pie.df.rows[i].Rate] = <<625, 700>>
    /\ pie.out.kind = "chart"
    /\ pie.out.bins = <<625, 700, 775, 850, 925, 1000>>
    /\ pie.out.values = <<2, 0, 0, 0, 0>>

\* C9: when no row has its rate in [min, 100] the range distribution shows the
\* no-data text; it does not show an error.
C9_RangeEmptyIsNoData ==
    [][(PieUpdateButton /\ NumericTexts(pie) /\ InRange(pie.df.rows, LowOf(pie)) = {})
          => /\ pie'.out.kind = "nodata"
             /\ pie'.out.message = "Keine Daten in den angegebenen Bereichen"]_vars

\* texts float() does not accept
NonNumeric == {<<"a", "b", "c">>, <<>>}

\* C11: whatever the two Spinbox texts are, the update of the range
\* distribution ends without an exception, in a chart, the no-data text or the
\* error text; a text that is not a number gives the error text.
C11_ParameterErrorContained ==
    [][PieUpdateButton =>
          /\ ~PieUpdate(pie).raised
          /\ pie'.out.kind \in {"chart", "nodata", "error"}
          /\ app'.message = NoMessage
          /\ (pie.min_var \in NonNumeric \/ pie.step_var \in NonNumeric)
                => pie'.out = [kind |-> "error", message |-> "Fehler bei der Diagrammerstellung"]]_vars

\* the text "abc" has been typed as the minimum over a DataFrame whose chart
\* for the texts of __init__ is drawn; the update has left the error text
C11_Witness ==
    /\ pie.min_var = <<"a", "b", "c">>
    /\ pie.step_var = <<"1", "0">>
    /\ [i \in DOMAIN pie.df.rows |-> pie.df.rows[i].Rate] = <<625, 700>>
    /\ pie.out.kind = "error"

-----------------------------------------------------------------------------
(* Properties of the load, checked under Spec *)

\* the required columns that are not among the column labels of the file
Lacking(file) ==
    {c \in SeqToSet(required_columns) : Plain(c) \notin SeqToSet(LoadedColumns(file.headers))}

\* C12: in every reachable state, load_csv_file of a file that lacks required
\* columns shows the message naming exactly these columns, in the order of
\* required_columns, and leaves the DataFrame and path of the application and
\* every diagram as they were.
C12_SchemaErrorKeepsState ==
    \A file \in Files :
        (file.readable /\ Lacking(file) # {})
        => LET after == LoadResult(State, "data.csv", file)
           IN  /\ after.app.message.kind = "missing"
               /\ SeqToSet(after.app.message.cols) = Lacking(file)
               /\ Len(after.app.message.cols) = Cardinality(Lacking(file))
               /\ file.headers = QuotedYearHeaders => after.app.message.cols = <<"Year">>
               /\ file.headers = NoYearNoRateHeaders
                     => after.app.message.cols = <<"Year", RateCol>>
               /\ after.app.df = app.df
               /\ after.app.file_path = app.file_path
               /\ after.bar = bar /\ after.scatter = scatter
               /\ after.pie = pie /\ after.plotter = plotter

\* a file without Year and rate column was rejected after a country had been
\* selected in the DataFrame loaded before: the selection is still there
C12_Witness ==
    /\ app.message = [kind |-> "missing", cols |-> <<"Year", RateCol>>]
    /\ app.file_path = "data.csv"
    /\ Len(app.df.rows) = 2
    /\ bar.df = app.df /\ plotter.df = app.df
    /\ bar.country_var = "Ghana"
    /\ scatter.continent_var = "Europe"

-----------------------------------------------------------------------------
(* Properties of the trend engine, checked under SpecTrend *)

\* the distinct countries among the rows the filters of the scatter diagram match
FilteredEntities ==
    {scatter.df.rows[i].Entity :
        i \in Matching(scatter.df.rows, scatter.continent_var, scatter.country_var)}

\* C13: with "Alle Länder" selected the scatter diagram has a legend exactly
\* when the filtered rows hold 2 to 15 distinct countries; with more than 15
\* it shows the number of countries in place of the legend.
C13_TrendLegendRule ==
    (scatter.out.kind = "chart" /\ scatter.out.mode = "multi")
        => /\ scatter.out.legend
                <=> (Cardinality(FilteredEntities) >= 2 /\ Cardinality(FilteredEntities) <= 15)
           /\ Cardinality(FilteredEntities) > 15 => scatter.out.texts # <<>>

\* C13, the part about the legend alone
C13_LegendIffTwoToFifteen ==
    (scatter.out.kind = "chart" /\ scatter.out.mode = "multi")
        => (scatter.out.legend
                <=> (Cardinality(FilteredEntities) >= 2 /\ Cardinality(FilteredEntities) <= 15))

-----------------------------------------------------------------------------
(* Properties of the pie diagram, checked under SpecComposition *)

\* the rows of a continent, and the sum of their rates
RowsOfContinent(rows, c) == {i \in DOMAIN rows : rows[i].Continent = c}

RECURSIVE RateSum(_, _)
RateSum(rows, c) ==
    IF rows = <<>> THEN 0
    ELSE (IF Head(rows).Continent = c THEN Head(rows).Rate ELSE 0) + RateSum(Tail(rows), c)

\* the pairs of a continent-average chart: one per continent of the rows, the
\* mean of the continent's rates (held as sum and number), not increasing,
\* the first pair and no other flagged
IsContinentAverage(o, rows) ==
    /\ o.kind = "chart"
    /\ Len(o.labels) = Cardinality({rows[i].Continent : i \in DOMAIN rows})
    /\ SeqToSet(o.labels) = {rows[i].Continent : i \in DOMAIN rows}
    /\ \A k \in DOMAIN o.labels :
          /\ o.values[k].n = Cardinality(RowsOfContinent(rows, o.labels[k]))
          /\ o.values[k].sum = RateSum(rows, o.labels[k])
    /\ \A k \in 1..(Len(o.values) - 1) :
          o.values[k].sum * o.values[k + 1].n >= o.values[k + 1].sum * o.values[k].n
    /\ \A k \in DOMAIN o.explode : o.explode[k] <=> k = 1
    /\ rows = <<Row("Ghana", "Africa", 2010, 625), Row("Kenya", "Africa", 2012, 740),
                Row("France", "Europe", 2015, 991)>>
          => /\ o.labels = <<"Europe", "Africa">>
             /\ o.values = <<[sum |-> 991, n |-> 1], [sum |-> 1365, n |-> 2]>>

\* C14: for every DataFrame with at least one row the continent-average chart
\* has one pair per continent with the mean of that continent's rates, in
\* order of non-increasing mean, the first pair alone flagged.
C14_ContinentAverage ==
    (pie.chart_type_var = AvgChart /\ ~pie.df.isNone /\ pie.df.rows # <<>>)
        => IsContinentAverage(pie.out, pie.df.rows)

\* C14 for the DataFrames whose continent-average chart is drawn
C14_ContinentAverageWhenDrawn ==
    (pie.chart_type_var = AvgChart /\ ~pie.df.isNone /\ pie.out.kind = "chart")
        => IsContinentAverage(pie.out, pie.df.rows)

\* the years of the rows
YearsOf(rows) == {rows[i].Year : i \in DOMAIN rows}

\* C15: the year chart has one pair per year of the DataFrame, in ascending
\* order of year, the count of a year being the number of rows of that year;
\* the counts add up to the number of rows.
C15_YearDistribution ==
    (pie.chart_type_var = YearChart /\ ~pie.df.isNone)
        => LET rows == pie.df.rows
               o == pie.out
           IN  /\ o.kind = "chart"
               /\ Len(o.labels) = Cardinality(YearsOf(rows))
               /\ Len(o.values) = Cardinality(YearsOf(rows))
               /\ \A y \in YearsOf(rows) :
                     LET k == Cardinality({z \in YearsOf(rows) : z <= y})
                     IN  /\ o.labels[k] = NatToString(y)
                         /\ o.values[k] = Cardinality({i \in DOMAIN rows : rows[i].Year = y})
               /\ SumSeq(o.values) = Len(rows)

\* rows of 2015, 2010, 2015: the chart has 2010 once, then 2015 twice
C15_Witness ==
    /\ pie.chart_type_var = YearChart
    /\ [i \in DOMAIN pie.df.rows |-> pie.df.rows[i].Year] = <<2015, 2010, 2015>>
    /\ pie.out.kind = "chart"
    /\ pie.out.labels = <<"2010", "2015">>
    /\ pie.out.values = <<1, 2>>

\* the pie chart shown is made from every row of the DataFrame of the application
OverFullDataset ==
    /\ pie.df = app.df
    /\ pie.out = PieCompute(app.df, pie.chart_type_var, pie.min_var, pie.step_var)
    /\ (pie.out.kind = "chart" /\ pie.chart_type_var = AvgChart)
          => SeqToSet(pie.out.labels) = {app.df.rows[i].Continent : i \in DOMAIN app.df.rows}
    /\ (pie.out.kind = "chart" /\ pie.chart_type_var = YearChart)
          => SumSeq(pie.out.values) = Len(app.df.rows)
    /\ (pie.out.kind = "chart" /\ pie.chart_type_var = RangeChart)
          => SumSeq(pie.out.values)
                = Cardinality({i \in DOMAIN app.df.rows :
                                  LowOf(pie) <= app.df.rows[i].Rate /\ app.df.rows[i].Rate <= 1000})

\* C16: the pie chart is the chart of the whole DataFrame for the chosen type
\* and Spinbox texts in every state, whatever is selected in the bar and the
\* scatter diagram; a selection there leaves the pie diagram as it is, and
\* showing its tab again draws the same chart.
C16_CompositionIgnoresFilters ==
    /\ [](~pie.df.isNone => OverFullDataset)
    /\ [][/\ ((\E c \in ContinentChoices : BarOnContinentSelected(c))
               \/ (\E c \in CountryChoices : ScatterOnCountrySelected(c))) => pie' = pie
          /\ OnTabChanged(3) => pie'.out = pie.out]_vars

\* "Africa" is selected in the bar diagram and "France" in the scatter diagram;
\* the year chart counts the three rows of the three continents
C16_Witness ==
    /\ bar.continent_var = "Africa"
    /\ scatter.country_var = "France"
    /\ pie.chart_type_var = YearChart
    /\ {app.df.rows[i].Continent : i \in DOMAIN app.df.rows} = {"Africa", "Asia", "Europe"}
    /\ pie.out.kind = "chart"
    /\ SumSeq(pie.out.values) = 3

-----------------------------------------------------------------------------
(* Properties of the continent diagrams, checked under SpecPanel *)

\* the number of names of S that are not after name in the order of sorted()
Place(name, S) == Cardinality({z \in S : Rank(z) <= Rank(name)})

\* line is the points of the given rows in ascending order of year
IsChronological(line, rows, idx) ==
    /\ Len(line) = Cardinality(idx)
    /\ \A k \in 1..(Len(line) - 1) : line[k][1] <= line[k + 1][1]
    /\ \A i \in idx :
          Cardinality({k \in DOMAIN line : line[k] = <<rows[i].Year, rows[i].Rate>>})
              = Cardinality({j \in idx : rows[j].Year = rows[i].Year /\ rows[j].Rate = rows[i].Rate})

\* the subplots are those of the rows: one per continent in the order of
\* sorted(), in each one series per country of the continent in the order of
\* sorted(), the line of a country with several rows going through its points
\* by ascending year
IsPanelsOf(o, rows) ==
    LET conts == {rows[i].Continent : i \in DOMAIN rows}
        ents(c) == {rows[i].Entity : i \in RowsOfContinent(rows, c)}
    IN  /\ o.kind = "panels"
        /\ Len(o.panels) = Cardinality(conts)
        /\ \A c \in conts :
              LET panel == o.panels[Place(c, conts)]
              IN  /\ panel.title = "Einschulung - " \o c
                  /\ Len(panel.series) = Cardinality(ents(c))
                  /\ \A e \in ents(c) :
                        LET series == panel.series[Place(e, ents(c))]
                            idx == {i \in RowsOfContinent(rows, c) : rows[i].Entity = e}
                        IN  /\ series.label = e
                            /\ IF Cardinality(idx) > 1
                               THEN IsChronological(series.line, rows, idx)
                               ELSE series.line = <<>>

\* C17: for every DataFrame the continent diagrams are one subplot per
\* continent in ascending order of name, each with one series per country of
\* the continent in ascending order of name, the line of a country going
\* through its points by ascending year.
C17_PanelOrdering ==
    ~plotter.df.isNone => IsPanelsOf(plotter.out, plotter.df.rows)

\* C17 for the DataFrames that have a row
C17_PanelOrderingNonEmpty ==
    (~plotter.df.isNone /\ plotter.df.rows # <<>>) => IsPanelsOf(plotter.out, plotter.df.rows)

-----------------------------------------------------------------------------
(* Properties of the application as a whole, checked under Spec *)

\* a combobox event of the bar diagram, of the scatter diagram, a tab change
BarEvent ==
    \/ \E c \in ContinentChoices : BarOnContinentSelected(c)
    \/ \E c \in CountryChoices : BarOnCountrySelected(c)

ScatterEvent ==
    \/ \E c \in ContinentChoices : ScatterOnContinentSelected(c)
    \/ \E c \in CountryChoices : ScatterOnCountrySelected(c)

TabEvent == \E i \in 0..4 : OnTabChanged(i)

\* the filter selections and the highlight of a diagram
Selections(c) == <<c.continent_var, c.country_var, c.highlight_country>>

\* C18: no redrawing of a diagram changes the rows or their order in the
\* DataFrame the application and the diagrams hold (a DataFrame changes only
\* in a load, to the rows of the file as they are), and a combobox event of
\* the bar diagram leaves the selections and the highlight of the scatter
\* diagram as they were, and the other way round.
C18_DatasetAndFilterIsolation ==
    [][/\ BarEvent
            => /\ app'.df = app.df
               /\ bar'.df = bar.df /\ scatter'.df = scatter.df
               /\ pie'.df = pie.df /\ plotter'.df = plotter.df
               /\ Selections(scatter') = Selections(scatter) /\ scatter' = scatter
       /\ ScatterEvent
            => /\ app'.df = app.df
               /\ bar'.df = bar.df /\ scatter'.df = scatter.df
               /\ pie'.df = pie.df /\ plotter'.df = plotter.df
               /\ Selections(bar') = Selections(bar) /\ bar' = bar
       /\ TabEvent
            => /\ app'.df = app.df
               /\ bar'.df = bar.df /\ scatter'.df = scatter.df
               /\ pie'.df = pie.df /\ plotter'.df = plotter.df
       /\ app'.df # app.df => \E file \in Files : app'.df = DataFrame(file.rows)
       /\ bar'.df # bar.df => bar'.df = app'.df
       /\ scatter'.df # scatter.df => scatter'.df = app'.df
       /\ pie'.df # pie.df => pie'.df = app'.df
       /\ plotter'.df # plotter.df => plotter'.df = app'.df]_vars

\* the bar diagram has drawn France before Ghana from a DataFrame that has
\* Ghana first, and holds a selection of its own next to that of the scatter diagram
C18_Witness ==
    /\ app.df.rows = <<Row("Ghana", "Africa", 2012, 625), Row("France", "Europe", 2015, 991)>>
    /\ bar.df = app.df
    /\ bar.out.kind = "chart"
    /\ bar.out.bars[1].entity = "France"
    /\ Selections(bar) = <<Alle, "Ghana", "Ghana">>
    /\ Selections(scatter) = <<"Europe", "France", "France">>

\* C19: what a diagram shows is determined by the DataFrame, the continent
\* and country selected in it and its chart options alone: it is the chart its
\* update computes from these, in every reachable state.
C19_OutputIsFunctionOfState ==
    ~app.df.isNone =>
        /\ bar.out = BarCompute(app.df, bar.continent_var,
                                IF bar.country_var = AlleLaender THEN None ELSE bar.country_var)
        /\ scatter.out = ScatterCompute(app.df, scatter.continent_var, scatter.country_var)
        /\ pie.out = PieCompute(app.df, pie.chart_type_var, pie.min_var, pie.step_var)
        /\ plotter.out = PlotterCompute(app.df)

\* C19, the part about recomputing: an update that follows another with
\* nothing changed in between draws the same chart
C19_RecomputingIsIdempotent ==
    ~app.df.isNone =>
        /\ BarUpdate(BarUpdate(bar)) = BarUpdate(bar)
        /\ ScatterUpdate(ScatterUpdate(scatter)) = ScatterUpdate(scatter)
        /\ PieUpdate(PieUpdate(pie).pie) = PieUpdate(pie)
        /\ PlotterUpdate(PlotterUpdate(plotter).plotter) = PlotterUpdate(plotter)

-----------------------------------------------------------------------------
(* The loop of the range distribution, checked under SpecRange *)

\* C20: for numeric min and step the loop building the boundaries ends with
\* at least 1 and at most 21 boundaries: 1 (no bucket) exactly when min clamps
\* to 100, 21 (20 buckets) for min 0 and step 5.
C20_BucketConstructionBounded ==
    [][(PieUpdateButton /\ NumericTexts(pie)) =>
          LET n == Len(RangeBins(ParseFloat(pie.min_var), ParseFloat(pie.step_var)))
          IN  /\ n >= 1 /\ n <= 21
              /\ n = 1 <=> LowOf(pie) = 1000
              /\ (LowOf(pie) = 0 /\ StepOf(pie) = 50) => n = 21
              /\ pie'.out.kind = "chart"
                    => /\ Len(pie'.out.bins) = n
                       /\ Len(pie'.out.values) = n - 1
                       /\ Len(pie'.out.values) <= 20]_vars

\* min 0 and step 5: the chart of 20 buckets
C20_Witness ==
    /\ pie.min_var = <<"0">> /\ pie.step_var = <<"5">>
    /\ pie.out.kind = "chart"
    /\ Len(pie.out.bins) = 21
    /\ Len(pie.out.values) = 20

-----------------------------------------------------------------------------
(* The loads of the application with rates of 0.0 among the rows: files that *)
(* load, files that lack columns, a file that cannot be read, the header     *)
(* line alone, with filter events and tab changes between the loads.         *)

\* longest DataFrame of the coherence specification
MaxCoherenceRows == 2

CoherenceRows ==
    {Row("Ghana", "Africa", 2012, 625), Row("Kenya", "Asia", 2012, 0),
     Row("France", "Europe", 2015, 0)}

CoherenceDatasets == SeqsUpTo(CoherenceRows, MaxCoherenceRows)

CoherenceFiles ==
    {File(TRUE, GoodHeaders, d) : d \in CoherenceDatasets}
    \cup {File(TRUE, NoYearNoRateHeaders, SampleRows), File(FALSE, <<>>, <<>>)}

NextCoherence ==
    \/ \E file \in CoherenceFiles : LoadCsvFile("data.csv", file)
    \/ \E c \in ContinentChoices : BarOnContinentSelected(c)
    \/ \E c \in CountryChoices : ScatterOnCountrySelected(c)
    \/ \E i \in 0..4 : OnTabChanged(i)

SpecCoherence == Init /\ [][NextCoherence]_vars

\* the diagrams hold the DataFrame of the application
Coherent ==
    /\ bar.df = app.df
    /\ scatter.df = app.df
    /\ pie.df = app.df
    /\ plotter.df = app.df

\* C21: after every load attempt and every filter event the application and
\* the bar, scatter, pie and plotter diagrams hold the same DataFrame, or none
\* of them holds one.
C21_DatasetCoherence == Coherent

\* the diagrams whose set_data comes before the call that raises hold the
\* DataFrame of the application; the plotter diagram holds it unless the update
\* of the pie diagram ended in an exception
C21_CoherentUnlessPieRaised ==
    /\ bar.df = app.df
    /\ scatter.df = app.df
    /\ pie.df = app.df
    /\ pie.out.kind # "exception" => plotter.df = app.df

\* a second load whose pie chart raises: the plotter diagram keeps the
\* DataFrame of the first load
C21_StalePlotter ==
    /\ ~plotter.df.isNone
    /\ plotter.df # app.df
    /\ pie.df = app.df
    /\ app.message = ErrorMessage
====
